---------------------------- MODULE Spec2Model ----------------------------
(***************************************************************************)
(* HomeyScript application (class HomeyScriptApp).  The repository holds   *)
(* two successive versions of the same class: src/app.js and               *)
(* src/unnamed/part_000.  The variable `variant' says which of the two is  *)
(* running; every operation is translated from the version it belongs to.  *)
(*                                                                         *)
(* JavaScript strings that the code inspects (script ids and names) are    *)
(* tuples of one-character strings.  Script code is an abstract program    *)
(* named by a string.  Dates are integers (milliseconds on a small clock). *)
(***************************************************************************)
EXTENDS Integers, Sequences, FiniteSets, TLC

VARIABLES
    variant,          \* "app" (src/app.js) or "part000" (src/unnamed/part_000)
    phase,            \* "boot" before onInit, "init" while onInit awaits the
                      \* token handles, "ready" once onInit has returned
    now,              \* the wall clock (Date.now())
    settings,         \* this.homey.settings: the persisted key-value store
    scripts,          \* this.scripts
    lateReads,        \* bootstrap file reads still pending after onInit went on
    lastOp,           \* history: the last registry operation that completed
    tokens,           \* this.tokens
    tokensInstances,  \* this.tokensInstances: id -> handle
    flowTokens,       \* the automation system: the set of live <<id, handle>>
    initTokens,       \* onInit's token reconstruction: per id "pending"/"ok"/"failed"
    tokCalls,         \* setToken calls in flight, per caller
    tokHist,          \* history: whether the calls completed last were a set of a
                      \* value and then a delete, of one id, with no other call
                      \* in flight meanwhile
    homeyAPIs,        \* host-API handles that were created and not destroyed
    runs              \* runScript calls, per run slot

vars == <<variant, phase, now, settings, scripts, lateReads, lastOp, tokens,
          tokensInstances, flowTokens, initTokens, tokCalls, tokHist,
          homeyAPIs, runs>>

storeVars == <<settings, scripts, lateReads, lastOp>>
tokenVars == <<tokens, tokensInstances, flowTokens, initTokens,
               tokCalls, tokHist>>
runVars   == <<homeyAPIs, runs>>

-----------------------------------------------------------------------------
(* Bounds of the model *)

MaxTime     == 2      \* the clock runs 1..MaxTime
MaxScripts  == 2      \* uuids that createScript can draw
NumRuns     == 2      \* concurrent runScript calls
MaxAPIs     == 2      \* host-API handle identities
MaxHandles  == 2      \* token handle identities
NumCallers  == 2      \* concurrent setToken calls

-----------------------------------------------------------------------------
(* JavaScript values *)

Undefined == <<"#undefined">>      \* an absent string-valued field
Null      == <<"#null">>           \* a string-valued field holding null
UndefCode == "#undefined"          \* an absent code field
NullCode  == "#null"
UNDEF     == 0 - 2                 \* an absent lastExecuted
NULL      == 0 - 1                 \* lastExecuted: null
INVALID   == 0 - 3                 \* an Invalid Date
NODATE    == 0 - 4                 \* a non-null value that is no Date (no getTime)
EPOCH     == 0 * 1                 \* new Date(null): 1970-01-01

Dates == 0..MaxTime

\* new Date(x)
NewDate(x) ==
    IF x = NULL THEN EPOCH
    ELSE IF x = UNDEF THEN INVALID
    ELSE IF x = NODATE THEN INVALID
    ELSE x

\* x == null  (null or undefined)
IsNullish(x) == x = NULL \/ x = UNDEF
IsNullishStr(x) == x = Null \/ x = Undefined
IsNullishCode(x) == x = NullCode \/ x = UndefCode

Digit == <<"1", "2", "3", "4", "5">>
Uuid(n) == <<"u", Digit[n]>>
Uuids == {Uuid(n) : n \in 1..MaxScripts}


-----------------------------------------------------------------------------
(* Script registry: helpers *)

\* The event loop turns: no script is looping on it
Responsive == \A r \in DOMAIN runs : runs[r].pc # "spinning"

\* A handler can be called: onInit has returned
Ready == phase = "ready" /\ Responsive

Put(reg, id, e) == [k \in (DOMAIN reg) \cup {id} |-> IF k = id THEN e ELSE reg[k]]
Remove(reg, id) == [k \in (DOMAIN reg) \ {id} |-> reg[k]]
EmptyObject == [k \in {} |-> 0]

\* `{}': a script object with no field set
NoFields == [id |-> Undefined, name |-> Undefined, code |-> UndefCode,
             lastExecuted |-> UNDEF]

\* What homey.settings.set stores of a value: its JSON form.  A Date is stored
\* as its timestamp, an Invalid Date as null.
Serialize(reg) ==
    [k \in DOMAIN reg |->
        [reg[k] EXCEPT !.lastExecuted = IF @ = INVALID THEN NULL ELSE @]]

SaveScripts(st, reg) == [st EXCEPT !.hasScripts = TRUE, !.scripts = Serialize(reg)]

\* Inputs of the registry operations
Names      == {<<"F", "o">>, <<"o">>}
StoreCodes == {"ret", "throw"}
ExamplePrefix == <<"e", "x", "a", "m", "p", "l", "e", "-">>
ExampleStems  == {<<"x">>}
LegacyStems   == {<<"l">>, <<"m">>}
ExampleIds    == {ExamplePrefix \o f : f \in ExampleStems}
ScriptIds     == Uuids \cup ExampleIds \cup LegacyStems

\* The code of a bundled or legacy file (fs.readFile)
FileCode(id) == "ret"

-----------------------------------------------------------------------------
(* getScripts / getScript *)

NotFound == "Script Not Found"
NoError  == "none"

getScripts(reg) == reg

\* getScript({ id }): throws when this.scripts[id] is missing, else a copy of
\* the entry with lastExecuted turned into a Date.
getScript(reg, id) ==
    IF id \notin DOMAIN reg
    THEN [err |-> NotFound, val |-> NoFields]
    ELSE [err |-> NoError,
          val |-> [reg[id] EXCEPT !.lastExecuted = NewDate(@)]]

-----------------------------------------------------------------------------
(* onFlowGetScriptAutocomplete *)

\* String.prototype.toLowerCase, on the letters the model draws
LowerChar(ch) ==
    CASE ch = "F" -> "f"
      [] ch = "O" -> "o"
      [] ch = "U" -> "u"
      [] OTHER    -> ch
toLowerCase(str) == [i \in 1..Len(str) |-> LowerChar(str[i])]

\* String.prototype.includes
includes(str, q) ==
    \E i \in 0..(Len(str) - Len(q)) : SubSeq(str, i + 1, i + Len(q)) = q

Queries == {<< >>, <<"o">>, <<"O">>, <<"u">>, <<"f", "o">>, <<"1">>, <<"z">>}

TypeErrorResult == {[id |-> Undefined, name |-> <<"T", "y", "p", "e", "E", "r", "r", "o", "r">>]}

\* The {id, name} pairs the listener returns.  The registry of the model has no
\* order: the list is given as the set of its elements.
\* app.js filters the values on script.name (a TypeError when a name is no
\* string); part_000 filters the keys and gives the key as id and as name.
onFlowGetScriptAutocomplete(v, reg, query) ==
    IF v = "app"
    THEN IF \E k \in DOMAIN reg : IsNullishStr(reg[k].name)
         THEN TypeErrorResult
         ELSE {[id |-> reg[k].id, name |-> reg[k].name] :
                  k \in {j \in DOMAIN reg :
                            includes(toLowerCase(reg[j].name), toLowerCase(query))}}
    ELSE {[id |-> k, name |-> k] :
             k \in {j \in DOMAIN reg : includes(toLowerCase(j), toLowerCase(query))}}

\* The Flow editor asks for the scripts that match query
autocomplete(query) ==
    /\ Ready
    /\ lastOp' = [op |-> "search", id |-> query, absent |-> TRUE,
                  name |-> Undefined, code |-> UndefCode,
                  found |-> onFlowGetScriptAutocomplete(variant, scripts, query)]
    /\ UNCHANGED <<variant, phase, now, settings, scripts, lateReads, tokenVars,
                   runVars>>

-----------------------------------------------------------------------------
(* createScript / createScriptV2 *)

newScript(id, name, code) ==
    [id |-> id, name |-> name, code |-> code, lastExecuted |-> NULL]

\* History: the operation, the id it was given, whether the registry had no
\* entry of that id then, and the name and code given to a create
Op(op, id, name, code, le) ==
    [op |-> op, id |-> id, absent |-> id \notin DOMAIN scripts,
     name |-> IF op = "create" THEN name ELSE Undefined,
     code |-> IF op = "create" THEN code ELSE UndefCode]

\* uuid.v4() / uuid(): an id no entry has
createScript(id, name, code) ==
    /\ Ready
    /\ id \in Uuids \ DOMAIN scripts
    /\ scripts' = Put(scripts, id, newScript(id, name, code))
    /\ settings' = SaveScripts(settings, scripts')
    /\ lastOp' = Op("create", id, name, code, NULL)
    /\ UNCHANGED <<variant, phase, now, lateReads, tokenVars, runVars>>

-----------------------------------------------------------------------------
(* updateScript (app.js), updateScript and updateScriptV2 (part_000) *)

\* app.js updateScript({ id, name, code, lastExecuted }): copy the entry (of
\* nothing, when there is none) and set the fields given and not null.
updatedEntry(reg, id, name, code, le) ==
    LET base == IF id \in DOMAIN reg THEN reg[id] ELSE NoFields
    IN  [id           |-> base.id,
         name         |-> IF IsNullishStr(name) THEN base.name ELSE name,
         code         |-> IF IsNullishCode(code) THEN base.code ELSE code,
         lastExecuted |-> IF IsNullish(le) THEN base.lastExecuted ELSE le]

\* part_000 updateScript({ id, code }): this.scripts[id].code = code, whatever
\* code is.
updatedEntryV1(reg, id, code) ==
    LET base == IF id \in DOMAIN reg THEN reg[id] ELSE NoFields
    IN  [base EXCEPT !.code = code]

\* part_000 updateScriptV2({ id, script }): { ...this.scripts[id], ...script, id }.
\* A key of `script' that is present overrides, null included; an absent key
\* does not.
updatedEntryV2(reg, id, name, code, le) ==
    LET base == IF id \in DOMAIN reg THEN reg[id] ELSE NoFields
    IN  [id           |-> id,
         name         |-> IF name = Undefined THEN base.name ELSE name,
         code         |-> IF code = UndefCode THEN base.code ELSE code,
         lastExecuted |-> IF le = UNDEF THEN base.lastExecuted ELSE le]

\* The registry after updateScript, by version and entry point
updateResult(v, reg, id, name, code, le) ==
    Put(reg, id, IF v = "app" THEN updatedEntry(reg, id, name, code, le)
                 ELSE IF v = "v1" THEN updatedEntryV1(reg, id, code)
                 ELSE updatedEntryV2(reg, id, name, code, le))

updateScript(id, name, code, le) ==
    /\ Ready
    /\ variant = "app"
    /\ scripts' = updateResult("app", scripts, id, name, code, le)
    /\ settings' = SaveScripts(settings, scripts')
    /\ lastOp' = Op("update", id, name, code, le)
    /\ UNCHANGED <<variant, phase, now, lateReads, tokenVars, runVars>>

updateScriptV1(id, code) ==
    /\ Ready
    /\ variant = "part000"
    /\ scripts' = updateResult("v1", scripts, id, Undefined, code, UNDEF)
    /\ settings' = SaveScripts(settings, scripts')
    /\ lastOp' = Op("update", id, Undefined, code, UNDEF)
    /\ UNCHANGED <<variant, phase, now, lateReads, tokenVars, runVars>>

updateScriptV2(id, name, code, le) ==
    /\ Ready
    /\ variant = "part000"
    /\ scripts' = updateResult("v2", scripts, id, name, code, le)
    /\ settings' = SaveScripts(settings, scripts')
    /\ lastOp' = Op("update", id, name, code, le)
    /\ UNCHANGED <<variant, phase, now, lateReads, tokenVars, runVars>>

-----------------------------------------------------------------------------
(* deleteScript *)

\* (mutant) delete that removes the entry from the saved copy only
deleteResultKept(reg, id) == reg

deleteResult(reg, id) == Remove(reg, id)

deleteScript(id) ==
    /\ Ready
    /\ scripts' = deleteResult(scripts, id)
    /\ settings' = SaveScripts(settings, scripts')
    /\ lastOp' = Op("delete", id, Undefined, UndefCode, UNDEF)
    /\ UNCHANGED <<variant, phase, now, lateReads, tokenVars, runVars>>


-----------------------------------------------------------------------------
(* Token registry: setToken *)

TokenIds  == {"t1", "t2"}
TokNull   == 0 - 1                  \* value null / undefined
TokValues == {5, 7}

\* typeof value, for the values the model draws
TypeOf(value) == "number"

Range(f) == {f[k] : k \in DOMAIN f}

SaveTokens(st, toks) == [st EXCEPT !.hasTokens = TRUE, !.tokens = toks]

IdleCall == [pc |-> "idle", id |-> "t1", value |-> TokNull, type |-> "number",
             h |-> 0]

\* Handle identities in use: registered, tracked, or the target of a pending call
UsedHandles ==
    {p[2] : p \in flowTokens} \cup Range(tokensInstances)
        \cup {tokCalls[c].h : c \in DOMAIN tokCalls}

\* createToken makes a new handle: the model names it by the least free identity
HandleFree(h) ==
    /\ h \in (1..MaxHandles) \ UsedHandles
    /\ \A g \in (1..MaxHandles) \ UsedHandles : h <= g

OthersInFlight(c) ==
    \/ \E d \in DOMAIN tokCalls : d # c /\ tokCalls[d].pc # "idle"
    \/ \E i \in DOMAIN initTokens : initTokens[i] = "pending"

NoCall == [id |-> "t1", seq |-> "none", overlap |-> FALSE, ext |-> "none",
           err |-> NoError]

\* History.  overlap: a call has started while another call, or one of onInit's
\* createToken calls, was in flight, and no call has started alone since.
\* ext, err: how the external operation of the call completed last has ended
\* ("none" when it made none) and what the call has thrown.
Started(c) ==
    IF OthersInFlight(c) THEN [tokHist EXCEPT !.overlap = TRUE]
    ELSE [tokHist EXCEPT !.overlap = FALSE]

Completed(hist, id, value) ==
    IF hist.overlap THEN [NoCall EXCEPT !.overlap = TRUE]
    ELSE IF value # TokNull THEN [NoCall EXCEPT !.id = id, !.seq = "set"]
    ELSE IF hist.seq = "set" /\ hist.id = id
         THEN [NoCall EXCEPT !.id = id, !.seq = "set;delete"]
    ELSE NoCall

\* setToken, delete branch after the await: remove entry and handle-map slot
\* when the entry exists, and persist.
deleteTail(id) ==
    IF id \in DOMAIN tokens
    THEN /\ tokens' = Remove(tokens, id)
         /\ tokensInstances' = Remove(tokensInstances, id)
         /\ settings' = SaveTokens(settings, tokens')
    ELSE UNCHANGED <<tokens, tokensInstances, settings>>

\* setToken({ id, value, type }) up to its first await
setTokenCall(c, id, value, type) ==
    /\ Ready
    /\ tokCalls[c].pc = "idle"
    /\ IF value = TokNull
       THEN IF id \in DOMAIN tokensInstances
            THEN /\ tokCalls' = [tokCalls EXCEPT ![c] =
                        [pc |-> "unregister", id |-> id, value |-> value,
                         type |-> type, h |-> tokensInstances[id]]]
                 /\ tokHist' = Started(c)
                 /\ UNCHANGED <<tokens, tokensInstances, settings>>
            ELSE /\ deleteTail(id)
                 /\ tokHist' = Completed(Started(c), id, value)
                 /\ UNCHANGED tokCalls
       ELSE IF id \notin DOMAIN tokensInstances
            THEN /\ tokCalls' = [tokCalls EXCEPT ![c] =
                        [pc |-> "create", id |-> id, value |-> value,
                         type |-> type, h |-> 0]]
                 /\ tokHist' = Started(c)
                 /\ UNCHANGED <<tokens, tokensInstances, settings>>
            ELSE /\ tokCalls' = [tokCalls EXCEPT ![c] =
                        [pc |-> "setValue", id |-> id, value |-> value,
                         type |-> type, h |-> tokensInstances[id]]]
                 /\ tokHist' = Started(c)
                 /\ UNCHANGED <<tokens, tokensInstances, settings>>
    /\ UNCHANGED <<variant, phase, now, scripts, lateReads, lastOp, flowTokens,
                   initTokens, runVars>>

\* The call returns (err = NoError) or throws, after its external operation
\* has succeeded (ok) or failed
Finish(c, ok, err) ==
    /\ tokHist' = [Completed(tokHist, tokCalls[c].id, tokCalls[c].value)
                       EXCEPT !.ext = IF ok THEN "ok" ELSE "failed", !.err = err]
    /\ tokCalls' = [tokCalls EXCEPT ![c] = IdleCall]

\* await this.tokensInstances[id].unregister().catch(this.error), then the rest
\* of the delete branch
unregisterDone(c, ok) ==
    LET call == tokCalls[c] IN
    /\ Responsive
    /\ call.pc = "unregister"
    /\ flowTokens' = IF ok THEN flowTokens \ {<<call.id, call.h>>} ELSE flowTokens
    /\ deleteTail(call.id)
    /\ Finish(c, ok, NoError)
    /\ UNCHANGED <<variant, phase, now, scripts, lateReads, lastOp, initTokens, runVars>>

\* this.tokensInstances[id] = await this.homey.flow.createToken(...), then the
\* entry and the save; a rejection leaves everything as it was.
createTokenDone(c, ok, h) ==
    LET call == tokCalls[c] IN
    /\ Responsive
    /\ call.pc = "create"
    /\ IF ok
       THEN /\ HandleFree(h)
            /\ flowTokens' = flowTokens \cup {<<call.id, h>>}
            /\ tokensInstances' = Put(tokensInstances, call.id, h)
            /\ tokens' = Put(tokens, call.id, [type |-> call.type, value |-> call.value])
            /\ settings' = SaveTokens(settings, tokens')
            /\ Finish(c, ok, NoError)
       ELSE /\ Finish(c, ok, "createToken failed")
            /\ UNCHANGED <<flowTokens, tokensInstances, tokens, settings>>
    /\ UNCHANGED <<variant, phase, now, scripts, lateReads, lastOp, initTokens, runVars>>

\* await this.tokensInstances[id].setValue(value), then this.tokens[id].value =
\* value (a TypeError when the entry is gone) and the save.
setValueDone(c, ok) ==
    LET call == tokCalls[c] IN
    /\ Responsive
    /\ call.pc = "setValue"
    /\ ok => <<call.id, call.h>> \in flowTokens
    /\ IF ok /\ call.id \in DOMAIN tokens
       THEN /\ tokens' = [tokens EXCEPT ![call.id].value = call.value]
            /\ settings' = SaveTokens(settings, tokens')
            /\ Finish(c, ok, NoError)
       ELSE /\ Finish(c, ok, IF ok THEN "TypeError" ELSE "setValue failed")
            /\ UNCHANGED <<tokens, settings>>
    /\ UNCHANGED <<variant, phase, now, scripts, lateReads, lastOp, flowTokens,
                   tokensInstances, initTokens, runVars>>


-----------------------------------------------------------------------------
(* onInit *)

\* The entries the bootstrap has written when onInit goes on: the example files
\* in exDone and the legacy files in lgDone.  stamp(f) is what
\* settings.get(`last-execution-${id}`) holds.
seedScripts(exDone, lgDone, stamp) ==
    [k \in {ExamplePrefix \o f : f \in exDone} \cup lgDone |->
        IF k \in lgDone
        THEN [id |-> Undefined, name |-> Undefined, code |-> FileCode(k),
              lastExecuted |-> NewDate(stamp)]
        ELSE [id |-> Undefined, name |-> Undefined, code |-> FileCode(k),
              lastExecuted |-> NULL]]

IsString(x) == ~IsNullishStr(x)

\* app.js: add name and id to the entries whose name is no string
migrateNames(reg) ==
    [k \in DOMAIN reg |->
        IF IsString(reg[k].name) THEN reg[k]
        ELSE [reg[k] EXCEPT !.name = k, !.id = k]]

\* part_000, migration 0: { ...script, id: scriptId, name: scriptId }
migration0(reg) ==
    [k \in DOMAIN reg |-> [reg[k] EXCEPT !.id = k, !.name = k]]

\* The files of one source that were read when the bootstrap goes on (done) and
\* those whose read is still pending then (late): Promise.all rejects at the
\* first failed read and does not wait for the others.
ReadOutcomes(files) ==
    {[done |-> files, late |-> {}]} \cup
    {[done |-> {}, late |-> {}]} \cup      \* readdir failed
    {[done |-> d, late |-> l] :
        <<d, l>> \in {x \in (SUBSET files) \X (SUBSET files) :
                        /\ x[1] \cap x[2] = {}
                        /\ x[1] \cup x[2] # files}}

onInit ==
    /\ phase \in {"boot", "reboot"}
    /\ \E ex \in ReadOutcomes(ExampleStems), lg \in ReadOutcomes(LegacyStems),
          stamp \in {UNDEF, 1} :
        LET fresh    == ~settings.hasScripts
            loaded   == IF fresh THEN seedScripts(ex.done, lg.done, stamp)
                        ELSE settings.scripts
            st1      == IF fresh THEN SaveScripts(settings, loaded) ELSE settings
            runMig0  == variant = "part000" /\ ~settings.migrations
            migrated == IF variant = "app" THEN migrateNames(loaded)
                        ELSE IF runMig0 THEN migration0(loaded) ELSE loaded
            st2      == IF variant = "app"
                        THEN IF migrated # loaded THEN SaveScripts(st1, migrated)
                             ELSE st1
                        ELSE IF runMig0
                             THEN [SaveScripts(st1, migrated) EXCEPT !.migrations = TRUE]
                             ELSE st1
            late     == {ExamplePrefix \o f : f \in ex.late} \cup lg.late
        IN  /\ scripts' = migrated
            /\ settings' = st2
            \* part_000's migration 0 replaces this.scripts by a new object: the
            \* pending reads then write to the old one, which nothing reads.
            /\ lateReads' = IF fresh /\ ~runMig0 THEN late ELSE {}
    /\ tokens' = IF settings.hasTokens THEN settings.tokens ELSE EmptyObject
    /\ tokensInstances' = EmptyObject
    /\ initTokens' = [id \in DOMAIN tokens' |-> "pending"]
    /\ phase' = "init"
    /\ lastOp' = Op("onInit", Undefined, Undefined, UndefCode, UNDEF)
    /\ UNCHANGED <<variant, now, flowTokens, tokCalls, tokHist, runVars>>

\* A bootstrap read that completes after onInit went on: scripts[id] = { code,
\* lastExecuted } on the object this.scripts refers to; nothing is saved.
lateRead(id, ok, stamp) ==
    /\ Responsive
    /\ id \in lateReads
    /\ lateReads' = lateReads \ {id}
    /\ IF ok
       THEN /\ scripts' = Put(scripts, id,
                    [id |-> Undefined, name |-> Undefined, code |-> FileCode(id),
                     lastExecuted |-> IF id \in LegacyStems THEN NewDate(stamp)
                                      ELSE NULL])
            /\ lastOp' = Op("lateRead", id, Undefined, UndefCode, UNDEF)
       ELSE UNCHANGED <<scripts, lastOp>>
    /\ UNCHANGED <<variant, phase, now, settings, tokenVars, runVars>>

\* One of onInit's createToken calls settles
initTokenDone(id, ok, h) ==
    /\ Responsive
    /\ id \in DOMAIN initTokens
    /\ initTokens[id] = "pending"
    /\ IF ok
       THEN /\ HandleFree(h)
            /\ flowTokens' = flowTokens \cup {<<id, h>>}
            /\ tokensInstances' = Put(tokensInstances, id, h)
            /\ initTokens' = [initTokens EXCEPT ![id] = "ok"]
       ELSE /\ initTokens' = [initTokens EXCEPT ![id] = "failed"]
            /\ UNCHANGED <<flowTokens, tokensInstances>>
    /\ UNCHANGED <<variant, phase, now, storeVars, tokens, tokCalls, tokHist, runVars>>

\* await Promise.all(...).catch(this.error): onInit returns when every handle
\* was created or when the first creation has failed.
onInitReturn ==
    /\ phase = "init"
    /\ \/ \A id \in DOMAIN initTokens : initTokens[id] = "ok"
       \/ \E id \in DOMAIN initTokens : initTokens[id] = "failed"
    /\ phase' = "ready"
    /\ UNCHANGED <<variant, now, storeVars, tokenVars, runVars>>

Tick ==
    /\ now < MaxTime
    /\ now' = now + 1
    /\ UNCHANGED <<variant, phase, storeVars, tokenVars, runVars>>


-----------------------------------------------------------------------------
(* Scripts as programs *)

\* The code of a script is one of these programs:
\*   ret       return 1+1
\*   throw     throw new Error('x')
\*   syntax    code that does not compile
\*   loop      while (true) {}
\*   waitret   await wait(100); return args[0]
\*   never     await new Promise(() => {})
\*   waitloop  await wait(100); while (true) {}
\*   say       await say('hi'); return 1+1
\*   log       log('a'); return 1+1
\*   latelog   _.delay(() => log('late'), 100); while (true) {}
\*   cyclic    const o = {}; o.self = o; return o
Codes == {"ret", "throw", "syntax", "loop", "waitret", "never", "waitloop", "say",
          "log", "latelog"}

\* The steps of a program; "wait", "say" and "never" suspend the script
Prog(code) ==
    CASE code = "ret"      -> <<"return2">>
      [] code = "throw"    -> <<"throwX">>
      [] code = "loop"     -> <<"loop">>
      [] code = "waitret"  -> <<"wait", "returnArg">>
      [] code = "never"    -> <<"never">>
      [] code = "waitloop" -> <<"wait", "loop">>
      [] code = "say"      -> <<"say", "return2">>
      [] code = "log"      -> <<"log", "return2">>
      [] code = "latelog"  -> <<"defer", "loop">>
      [] code = "cyclic"   -> <<"returnCyclic">>
      [] OTHER             -> <<"returnUndef">>   \* `undefined' or `null' as code

UndefVal == 0 - 1                  \* the value undefined
ArgValues == {UndefVal, 42}        \* args[0]: args = [] or args = [42]
CyclicVal == 0 - 5                 \* an object that holds itself

Err(m, s) == [message |-> m, stack |-> s]
NoErr == Err("", "")
FreshStack == "at runScript"       \* the stack of an error made in runScript
TimeoutErr == Err("Script execution timed out after 30000ms", "at vm timeout")
SyntaxErr  == Err("Unexpected token", "at script:1")
ThrownErr  == Err("x", "at script:1")
SayErr     == Err("say failed", "at speechOutput.say")
DestroyedErr == Err("HomeyAPI destroyed", "at speechOutput.say")
TypeErr    == Err("Cannot read getTime", "at runScript context")
NotFoundErr == Err(NotFound, "at getScript")
ReferenceErr == Err("id is not defined", "at run listener")
CircularErr == Err("Converting circular structure to JSON", "at JSON.stringify")

\* What the script's promise is after the script ran from step `pos' until it
\* suspended, finished or started to loop; logs counts the calls of log it made
\* on the way, defer says that it left a callback on a timer.
RECURSIVE Eval(_, _, _)
Eval(prog, pos, arg) ==
    LET step == prog[pos]
        at(promise, value, cause, spin) ==
            [promise |-> promise, pos |-> pos, value |-> value, cause |-> cause,
             spin |-> spin, logs |-> 0, defer |-> FALSE]
    IN
    CASE step = "return2"     -> at("resolved", 2, NoErr, FALSE)
      [] step = "returnArg"   -> at("resolved", arg, NoErr, FALSE)
      [] step = "returnUndef" -> at("resolved", UndefVal, NoErr, FALSE)
      [] step = "returnCyclic" -> at("resolved", CyclicVal, NoErr, FALSE)
      [] step = "throwX"      -> at("rejected", UndefVal, ThrownErr, FALSE)
      [] step = "loop"        -> at("pending", UndefVal, NoErr, TRUE)
      [] step = "log"         -> [Eval(prog, pos + 1, arg) EXCEPT !.logs = @ + 1]
      [] step = "defer"       -> [Eval(prog, pos + 1, arg) EXCEPT !.defer = TRUE]
      [] OTHER                -> at("pending", UndefVal, NoErr, FALSE)

-----------------------------------------------------------------------------
(* runScript *)

\* (mutant) one HomeyAPI object made once and handed to every run
getHomeyAPIShared(r, h) == h = 1

VoidId   == <<"_", "_", "v", "o", "i", "d", "_", "_">>
TestName == <<"T", "e", "s", "t">>

IdleRun == [pc |-> "idle", origin |-> "none", id |-> Undefined, name |-> Undefined,
            code |-> UndefCode, lastExecuted |-> UNDEF, arg |-> UndefVal,
            api |-> 0, pos |-> 0, promise |-> "none", value |-> UndefVal,
            cause |-> NoErr, outcome |-> "none", thrown |-> NoErr, started |-> 0,
            met |-> FALSE, realtime |-> TRUE, lines |-> 0, events |-> << >>,
            cb |-> FALSE, due |-> 0, marks |-> {}]

\* (mutant) a logger that sends the realtime event whatever the flag
logLineAlways(run) ==
    [run EXCEPT !.lines = @ + 1, !.events = Append(@, run.id)]

\* The logger of a run: this.log(...) always, and a realtime event with the id
\* of the run when realtime is set.  lines counts the lines written locally,
\* events holds the `script' field of the events sent.
logLine(run) ==
    [run EXCEPT !.lines = @ + 1,
                !.events = IF run.realtime THEN Append(@, run.id) ELSE @]

RECURSIVE logLines(_, _)
logLines(run, n) == IF n = 0 THEN run ELSE logLines(logLine(run), n - 1)

\* setTimeout(resolve, delay), a delay of one tick: the time before which the
\* timer does not fire.  The clock stops at MaxTime, which stands for every
\* later time.
timerDue(t) == IF t + 1 > MaxTime THEN MaxTime ELSE t + 1

\* JSON.stringify(value, false, 2) throws on a value that holds itself
JSON_stringify(value) ==
    IF value = CyclicVal THEN [err |-> CircularErr, text |-> UndefVal]
    ELSE [err |-> NoErr, text |-> value]

\* log('... Script Success'): the line, and the marker kept in marks
logSuccess(run) == [logLine(run) EXCEPT !.marks = @ \cup {"success"}]

\* log('... Script Error') and log(err.stack)
logError(run) == [logLines(run, 2) EXCEPT !.marks = @ \cup {"error"}]

\* runScript is between its start and its end in slot r
Running(r) == runs[r].pc \in {"acquired", "awaiting", "spinning"}

\* getHomeyAPI(): new HomeyAPI(...), a handle no run holds
HeldAPIs(r) == homeyAPIs \cup {runs[q].api : q \in (DOMAIN runs) \ {r}}

getHomeyAPI(r, h) ==
    /\ h \in (1..MaxAPIs) \ HeldAPIs(r)
    /\ \A g \in (1..MaxAPIs) \ HeldAPIs(r) : h <= g

\* destroy()
destroy(apis, h) == apis \ {h}

\* const error = new Error(err.message); error.stack = ...
\* app.js: error.stack = err.stack.  part_000: error.stack = error.stack.
normalized(v, err) ==
    Err(err.message, IF v = "app" THEN err.stack ELSE FreshStack)

\* runScript up to `await this.getHomeyAPI()'.
\* app.js: if (lastExecuted == null) lastExecuted = new Date().
\* part_000: if (script == null) script = { id: '__void__', lastExecuted: new
\* Date(), name: 'Test' }; hasScript says whether a script object was passed.
runScriptCall(r, origin, hasScript, id, name, code, le, arg, realtime, h) ==
    /\ getHomeyAPI(r, h)
    /\ homeyAPIs' = homeyAPIs \cup {h}
    /\ runs' = [q \in DOMAIN runs |->
          IF q = r
          THEN [IdleRun EXCEPT
             !.pc = "acquired", !.origin = origin, !.api = h, !.arg = arg,
             !.realtime = realtime,
             !.code = code, !.started = IF origin = "trigger" THEN now ELSE 0,
             !.id = IF variant = "part000" /\ ~hasScript THEN VoidId ELSE id,
             !.name = IF variant = "part000" /\ ~hasScript THEN TestName ELSE name,
             !.lastExecuted =
                 IF variant = "app" THEN (IF IsNullish(le) THEN now ELSE le)
                 ELSE IF ~hasScript THEN now ELSE le,
             \* history: this run starts while another run is under way
             !.met = \E o \in (DOMAIN runs) \ {r} : Running(o)]
          ELSE IF Running(q) THEN [runs[q] EXCEPT !.met = TRUE]
          ELSE runs[q]]

\* A call of runScript can start; the model puts it in the first slot in which
\* no run is under way
CanStart(r) ==
    /\ Ready
    /\ runs[r].pc \in {"idle", "done"}
    /\ \A q \in DOMAIN runs : q < r => Running(q)

Failed(r, origin, err) ==
    runs' = [runs EXCEPT ![r] =
        [IdleRun EXCEPT !.pc = "done", !.origin = origin, !.outcome = "error",
                        !.cause = err, !.thrown = err]]

\* The run listeners of the cards run and runWithArg (condition and action):
\* getScript, then runScript with the fields of the copy it returned.
\* part_000's action card runWithArg reads an undeclared `id'.
flowRun(r, card, id, arg, h) ==
    /\ CanStart(r)
    /\ LET src == getScript(scripts, id) IN
       IF src.err # NoError
       THEN Failed(r, "trigger", NotFoundErr) /\ UNCHANGED homeyAPIs
       ELSE IF variant = "part000" /\ card = "action.runWithArg"
       THEN Failed(r, "trigger", ReferenceErr) /\ UNCHANGED homeyAPIs
       ELSE runScriptCall(r, "trigger", TRUE, src.val.id, src.val.name,
                          src.val.code, src.val.lastExecuted,
                          IF card \in {"run", "action.run"} THEN UndefVal ELSE arg,
                          FALSE, h)
    /\ UNCHANGED <<variant, phase, now, storeVars, tokenVars>>

\* runScript called directly (the application's API).  In part_000 the script
\* object is passed when hasScript.
runScript(r, hasScript, id, name, code, le, arg, realtime, h) ==
    /\ CanStart(r)
    /\ runScriptCall(r, "direct", hasScript, id, name, code, le, arg, realtime, h)
    /\ UNCHANGED <<variant, phase, now, storeVars, tokenVars>>

\* part_000, card runCodeWithArgReturnsString: runScript({ code, args, realtime })
\* with realtime: state.realtime != null ? state.realtime : false
runCode(r, code, arg, realtime, h) ==
    /\ CanStart(r)
    /\ variant = "part000"
    /\ runScriptCall(r, "inline", FALSE, Undefined, Undefined, code, UNDEF, arg,
                     realtime, h)
    /\ UNCHANGED <<variant, phase, now, storeVars, tokenVars>>

\* The `finally' of app.js's run listeners:
\* this.updateScript({ id: scriptSource.id, lastExecuted: new Date() })
recordExecution(run) ==
    IF variant = "app" /\ run.origin = "trigger"
    THEN /\ scripts' = updateResult("app", scripts, run.id, Undefined, UndefCode, now)
         /\ settings' = SaveScripts(settings, scripts')
         /\ lastOp' = Op("update", run.id, Undefined, UndefCode, now)
    ELSE UNCHANGED <<scripts, settings, lastOp>>

\* catch (err) { log(...); log(...); throw normalized error }
\* finally { homeyAPI.destroy() }.  run: the run as the script has left it.
Caught(r, run, err) ==
    /\ runs' = [runs EXCEPT ![r] =
          [logError(run) EXCEPT !.pc = "done", !.outcome = "error",
                                   !.cause = err, !.thrown = normalized(variant, err)]]
    /\ homeyAPIs' = destroy(homeyAPIs, runs[r].api)
    /\ recordExecution(runs[r])

\* The run after its script has run up to ev: the lines the script logged, the
\* callback it left, and the timer it waits for
afterScript(run, prog, ev) ==
    [logLines(run, ev.logs) EXCEPT
        !.cb = (@ \/ ev.defer),
        !.due = IF ev.promise = "pending" /\ ~ev.spin /\ prog[ev.pos] = "wait"
                THEN timerDue(now) ELSE @]

\* runScript from vm.createContext to `await runPromise'.  Building the context
\* reads lastExecuted.getTime() outside the try block.  Inside it: compile,
\* then runInNewContext runs the script and its microtasks under the timeout.
runExec(r) ==
    LET run  == runs[r]
        code == run.code
        ev   == Eval(Prog(code), 1, run.arg)
        ran  == afterScript(run, Prog(code), ev)
    IN
    /\ Responsive
    /\ run.pc = "acquired"
    /\ IF run.lastExecuted \in {NULL, UNDEF, NODATE}
       THEN \* TypeError before the try block: no catch, no finally
            /\ runs' = [runs EXCEPT ![r].pc = "done", ![r].outcome = "error",
                                    ![r].cause = TypeErr, ![r].thrown = TypeErr]
            /\ UNCHANGED homeyAPIs
            /\ recordExecution(run)
       ELSE IF code = "syntax" THEN Caught(r, run, SyntaxErr)
       ELSE IF ev.spin THEN Caught(r, ran, TimeoutErr)
       ELSE /\ runs' = [runs EXCEPT ![r] =
                   [ran EXCEPT
                      !.pc = "awaiting", !.pos = ev.pos,
                      !.promise = ev.promise, !.value = ev.value,
                      !.cause = ev.cause,
                      \* part_000: script.lastExecuted = new Date(), on the copy
                      !.lastExecuted = IF variant = "part000" THEN now ELSE @]]
            /\ UNCHANGED <<homeyAPIs, scripts, lastOp>>
            /\ settings' = IF variant = "part000" /\ run.id # VoidId
                           THEN SaveScripts(settings, scripts) ELSE settings
    /\ UNCHANGED <<variant, phase, now, lateReads, tokenVars>>

\* The timer of wait() fires, not before it is due, or the host call of say()
\* settles, and the script goes on from there; no timeout covers this part.
scriptResume(r, ok) ==
    LET run  == runs[r]
        prog == Prog(run.code)
        ev   == Eval(prog, run.pos + 1, run.arg)
        ran  == afterScript(run, prog, ev)
    IN
    /\ Responsive
    /\ run.pc = "awaiting"
    /\ run.promise = "pending"
    /\ prog[run.pos] \in {"wait", "say"}
    /\ prog[run.pos] = "wait" => (ok /\ now >= run.due)
    /\ IF prog[run.pos] = "say" /\ run.api \notin homeyAPIs
       THEN runs' = [runs EXCEPT ![r].promise = "rejected", ![r].cause = DestroyedErr]
       ELSE IF ~ok
       THEN runs' = [runs EXCEPT ![r].promise = "rejected", ![r].cause = SayErr]
       ELSE IF ev.spin
       THEN runs' = [runs EXCEPT ![r] = [ran EXCEPT !.pc = "spinning", !.pos = ev.pos]]
       ELSE runs' = [runs EXCEPT ![r] =
                [ran EXCEPT !.pos = ev.pos, !.promise = ev.promise,
                            !.value = ev.value, !.cause = ev.cause]]
    /\ UNCHANGED <<variant, phase, now, storeVars, tokenVars, homeyAPIs>>

\* `await runPromise' returns or throws: the rest of runScript
runSettle(r) ==
    LET run == runs[r] IN
    /\ Responsive
    /\ run.pc = "awaiting"
    /\ run.promise \in {"resolved", "rejected"}
    /\ IF run.promise = "rejected"
       THEN Caught(r, run, run.cause)
       ELSE IF JSON_stringify(run.value).err # NoErr
       THEN \* the success marker is logged, then JSON.stringify throws in the try
            Caught(r, logSuccess(run), JSON_stringify(run.value).err)
       ELSE /\ runs' = [runs EXCEPT ![r] =
                   [logLine(logSuccess(run)) EXCEPT !.pc = "done",
                                                    !.outcome = "value"]]
            /\ homeyAPIs' = destroy(homeyAPIs, run.api)
            /\ recordExecution(run)
    /\ UNCHANGED <<variant, phase, now, lateReads, tokenVars>>

\* A timer the script has set fires and runs the callback the script gave it,
\* in the context of the script: here the callback calls log.  Nothing ties the
\* callback to the state of the run.
callbackRuns(r) ==
    /\ Responsive
    /\ runs[r].cb
    /\ runs[r].pc \in {"awaiting", "done"}
    /\ runs' = [runs EXCEPT ![r] = [logLine(runs[r]) EXCEPT !.cb = FALSE]]
    /\ UNCHANGED <<variant, phase, now, storeVars, tokenVars, homeyAPIs>>

-----------------------------------------------------------------------------
(* The `global' object given to the scripts, over homey.settings *)

\* The keys of the settings the application itself uses
ScriptsKey    == <<"s", "c", "r", "i", "p", "t", "s">>
TokensKey     == <<"t", "o", "k", "e", "n", "s">>
MigrationsKey == <<"m", "i", "g", "r", "a", "t", "i", "o", "n", "s">>

\* undefined: the key holds nothing (no stored object equals it)
NoValue == [k \in {Undefined} |-> 0]

\* homey.settings.get / set / getKeys.  settings holds the three records of the
\* application in fields of their own and every other key in `other'.
settingsGet(st, key) ==
    CASE key = ScriptsKey    -> IF st.hasScripts THEN st.scripts ELSE NoValue
      [] key = TokensKey     -> IF st.hasTokens THEN st.tokens ELSE NoValue
      [] key = MigrationsKey -> st.migrations
      [] OTHER               -> IF key \in DOMAIN st.other THEN st.other[key]
                                ELSE NoValue

settingsSet(st, key, value) ==
    CASE key = ScriptsKey    -> [st EXCEPT !.hasScripts = TRUE, !.scripts = value]
      [] key = TokensKey     -> [st EXCEPT !.hasTokens = TRUE, !.tokens = value]
      [] key = MigrationsKey -> [st EXCEPT !.migrations = value]
      [] OTHER               -> [st EXCEPT !.other = Put(@, key, value)]

settingsGetKeys(st) ==
    (DOMAIN st.other)
        \cup (IF st.hasScripts THEN {ScriptsKey} ELSE {})
        \cup (IF st.hasTokens THEN {TokensKey} ELSE {})
        \cup (IF st.migrations THEN {MigrationsKey} ELSE {})

GlobalPrefix == <<"h", "o", "m", "e", "y", "s", "c", "r", "i", "p", "t", "-">>

\* String.prototype.startsWith / substring
startsWith(str, prefix) ==
    /\ Len(str) >= Len(prefix)
    /\ SubSeq(str, 1, Len(prefix)) = prefix
substring(str, n) == SubSeq(str, n + 1, Len(str))

\* (mutant) keys used as they are given
globalKeyBare(key) == key

\* `homeyscript-${key}`
globalKey(key) == GlobalPrefix \o key

global_get(st, key) == settingsGet(st, globalKey(key))
global_set(st, key, value) == settingsSet(st, globalKey(key), value)
global_keys(st) ==
    {substring(k, Len(GlobalPrefix)) :
        k \in {j \in settingsGetKeys(st) : startsWith(j, GlobalPrefix)}}

\* Keys and values a script passes: the values are the objects {n: 5}, {n: 7}
GlobalKeys   == {<<"a">>, ScriptsKey}
GlobalValues == {[k \in {<<"n">>} |-> n] : n \in {5, 7}}

\* The script of run r, on after an await, calls global.set / get / keys
\* (the result of the call is kept in lastOp)
ScriptRuns(r) ==
    /\ Responsive
    /\ runs[r].pc = "awaiting"
    /\ runs[r].promise = "pending"

GlobalOp(op, r, key, found) ==
    [op |-> op, id |-> key, absent |-> TRUE, name |-> Undefined,
     code |-> UndefCode, by |-> r, found |-> found]

globalSet(r, key, value) ==
    /\ ScriptRuns(r)
    /\ settings' = global_set(settings, key, value)
    /\ lastOp' = GlobalOp("global.set", r, key, value)
    /\ UNCHANGED <<variant, phase, now, scripts, lateReads, tokenVars, runVars>>

globalGet(r, key) ==
    /\ ScriptRuns(r)
    /\ lastOp' = GlobalOp("global.get", r, key, global_get(settings, key))
    /\ UNCHANGED <<variant, phase, now, settings, scripts, lateReads, tokenVars,
                   runVars>>

globalKeys(r) ==
    /\ ScriptRuns(r)
    /\ lastOp' = GlobalOp("global.keys", r, << >>, global_keys(settings))
    /\ UNCHANGED <<variant, phase, now, settings, scripts, lateReads, tokenVars,
                   runVars>>

-----------------------------------------------------------------------------
(* Initial states and specifications *)

\* Persisted registries a start can find: one written by a version that knew no
\* names, and one with named scripts
LegacyEntry    == [id |-> Undefined, name |-> Undefined, code |-> "ret",
                   lastExecuted |-> NULL]
LegacyRegistry == [k \in {<<"l">>} |-> LegacyEntry]
NamedRegistry  == [k \in {Uuid(1)} |-> newScript(Uuid(1), <<"F", "o">>, "ret")]
RunRegistry    == [k \in {Uuid(1), Uuid(2)} |->
                      newScript(k, <<"F", "o">>,
                                IF k = Uuid(1) THEN "waitret" ELSE "throw")]

NoSettings == [hasScripts |-> FALSE, scripts |-> EmptyObject,
               hasTokens |-> FALSE, tokens |-> EmptyObject, migrations |-> FALSE,
               other |-> EmptyObject]

Persisted(reg, mig, toks) ==
    [hasScripts |-> TRUE, scripts |-> reg, hasTokens |-> TRUE, tokens |-> toks,
     migrations |-> mig, other |-> EmptyObject]

InitWith(S) ==
    /\ variant \in {"app", "part000"}
    /\ phase = "boot"
    /\ now = 1
    /\ settings \in S
    /\ scripts = EmptyObject
    /\ lateReads = {}
    /\ lastOp = Op("none", Undefined, Undefined, UndefCode, UNDEF)
    /\ tokens = EmptyObject
    /\ tokensInstances = EmptyObject
    /\ flowTokens = {}
    /\ initTokens = EmptyObject
    /\ tokCalls = [c \in 1..NumCallers |-> IdleCall]
    /\ tokHist = NoCall
    /\ homeyAPIs = {}
    /\ runs = [r \in 1..NumRuns |-> IdleRun]

PersistedTokens ==
    {EmptyObject,
     [k \in {"t1"} |-> [type |-> "number", value |-> 5]],
     [k \in TokenIds |-> [type |-> "number", value |-> 5]]}

AllSettings ==
    {NoSettings}
    \cup {Persisted(reg, mig, toks) :
            reg \in {LegacyRegistry, NamedRegistry, RunRegistry},
            mig \in BOOLEAN, toks \in PersistedTokens}

Init == InitWith(AllSettings)

Startup ==
    \/ onInit
    \/ \E id \in ScriptIds, ok \in BOOLEAN, stamp \in {UNDEF, 1} : lateRead(id, ok, stamp)
    \/ \E id \in TokenIds, ok \in BOOLEAN, h \in 1..MaxHandles : initTokenDone(id, ok, h)
    \/ onInitReturn

\* The partial updates: a name alone, a code alone, every field null, no field
UpdateInputs ==
    {[name |-> <<"o">>, code |-> UndefCode, le |-> UNDEF],
     [name |-> Undefined, code |-> "throw", le |-> UNDEF],
     [name |-> Null, code |-> NullCode, le |-> NULL],
     [name |-> Undefined, code |-> UndefCode, le |-> UNDEF]}

StoreOps(ids) ==
    \/ \E id \in Uuids, name \in Names, code \in StoreCodes : createScript(id, name, code)
    \/ \E id \in ids, u \in UpdateInputs : updateScript(id, u.name, u.code, u.le)
    \/ \E id \in ids, u \in UpdateInputs : updateScriptV2(id, u.name, u.code, u.le)
    \/ \E id \in ids, code \in {"throw", UndefCode} : updateScriptV1(id, code)
    \/ \E id \in ids : deleteScript(id)

TokenOps ==
    \/ \E c \in 1..NumCallers, id \in TokenIds, value \in TokValues \cup {TokNull} :
          setTokenCall(c, id, value, TypeOf(value))
    \/ \E c \in 1..NumCallers, ok \in BOOLEAN : unregisterDone(c, ok)
    \/ \E c \in 1..NumCallers, ok \in BOOLEAN, h \in 1..MaxHandles : createTokenDone(c, ok, h)
    \/ \E c \in 1..NumCallers, ok \in BOOLEAN : setValueDone(c, ok)

Cards == {"run", "runWithArg", "action.run", "action.runWithArg"}

\* Runs started by the cards, in the slots `slots'
TriggerRuns(slots) ==
    \E r \in slots, card \in Cards, id \in DOMAIN scripts, h \in 1..MaxAPIs :
        flowRun(r, card, id, 42, h)

\* Direct and inline runs of the programs `codes'
DirectRuns(slots, codes, les, args, rts) ==
    \/ \E r \in slots, hasScript \in BOOLEAN, code \in codes, le \in les,
          arg \in args, realtime \in rts, h \in 1..MaxAPIs :
          runScript(r, hasScript, Uuid(1), <<"F", "o">>, code, le, arg, realtime, h)
    \/ \E r \in slots, code \in codes, h \in 1..MaxAPIs :
          runCode(r, code, 42, FALSE, h)

RunSteps(slots) ==
    \/ \E r \in slots : runExec(r)
    \/ \E r \in slots, ok \in BOOLEAN : scriptResume(r, ok)
    \/ \E r \in slots : runSettle(r)


\* The script registry: startup over a persisted registry, then the registry
\* operations
StoreSettings == {Persisted(NamedRegistry, mig, EmptyObject) : mig \in BOOLEAN}
NextStore == onInit \/ onInitReturn \/ StoreOps(Uuids)
SpecStore == InitWith(StoreSettings) /\ [][NextStore]_vars

\* The token registry: startup over persisted tokens, then setToken
TokenSettings == {Persisted(NamedRegistry, TRUE, toks) : toks \in PersistedTokens}
NextTokens ==
    \/ onInit
    \/ \E id \in TokenIds, ok \in BOOLEAN, h \in 1..MaxHandles : initTokenDone(id, ok, h)
    \/ onInitReturn
    \/ TokenOps
SpecTokens == InitWith(TokenSettings) /\ [][NextTokens]_vars

\* setToken calls on one id that overlap, with no token persisted at startup.
\* No external operation fails by itself: unregister and createToken succeed,
\* and setValue fails only on a handle that has been unregistered.
NoTokenSettings == {Persisted(NamedRegistry, TRUE, EmptyObject)}
NextSameId ==
    \/ onInit
    \/ onInitReturn
    \/ \E c \in 1..NumCallers, value \in TokValues \cup {TokNull} :
          setTokenCall(c, "t1", value, TypeOf(value))
    \/ \E c \in 1..NumCallers : unregisterDone(c, TRUE)
    \/ \E c \in 1..NumCallers, h \in 1..MaxHandles : createTokenDone(c, TRUE, h)
    \/ \E c \in 1..NumCallers :
          setValueDone(c, <<tokCalls[c].id, tokCalls[c].h>> \in flowTokens)
SpecSameId == InitWith(NoTokenSettings) /\ [][NextSameId]_vars

\* Runs one after the other, of every program, over a registry of two scripts
RunSettings == {Persisted(RunRegistry, TRUE, EmptyObject)}
NextRun ==
    \/ onInit
    \/ onInitReturn
    \/ TriggerRuns({1})
    \/ DirectRuns({1}, Codes, {NULL, NODATE}, {42}, {TRUE})
    \/ RunSteps({1})
    \/ callbackRuns(1)
    \/ deleteScript(Uuid(1))
    \/ Tick
SpecRun == InitWith(RunSettings) /\ [][NextRun]_vars

\* The application is stopped and started again: a new instance, of which only
\* the settings are kept; the handles of the old instance are gone.  phase is
\* "reboot" until onInit runs again.
restart ==
    /\ phase = "ready"
    /\ phase' = "reboot"
    /\ scripts' = EmptyObject
    /\ lateReads' = {}
    /\ lastOp' = [op |-> "restart", id |-> Undefined, absent |-> TRUE,
                  name |-> Undefined, code |-> UndefCode]
    /\ tokens' = EmptyObject
    /\ tokensInstances' = EmptyObject
    /\ flowTokens' = {}
    /\ initTokens' = EmptyObject
    /\ tokCalls' = [c \in DOMAIN tokCalls |-> IdleCall]
    /\ tokHist' = NoCall
    /\ homeyAPIs' = {}
    /\ runs' = [r \in DOMAIN runs |-> IdleRun]
    /\ UNCHANGED <<variant, now, settings>>

\* The registry operations and the autocomplete of the Flow cards
NextSearch == NextStore \/ \E query \in Queries : autocomplete(query)
SpecSearch == InitWith(StoreSettings) /\ [][NextSearch]_vars

\* Startups one after the other: a first start with or without settings, then
\* scripts created with and without a name, and restarts
BootSettings ==
    {NoSettings} \cup
    {Persisted(reg, mig, EmptyObject) :
        reg \in {LegacyRegistry, NamedRegistry}, mig \in BOOLEAN}
NextBoot ==
    \/ onInit
    \/ \E id \in ScriptIds, ok \in BOOLEAN, stamp \in {UNDEF, 1} : lateRead(id, ok, stamp)
    \/ onInitReturn
    \/ \E id \in Uuids, name \in {Undefined, <<"F", "o">>} : createScript(id, name, "ret")
    \/ restart
SpecBoot == InitWith(BootSettings) /\ [][NextBoot]_vars

\* A registry of a script that returns and one that throws
ConcRegistry == [k \in {Uuid(1), Uuid(2)} |->
                    newScript(k, <<"F", "o">>, IF k = Uuid(1) THEN "ret" ELSE "throw")]
ConcSettings == {Persisted(ConcRegistry, TRUE, EmptyObject)}

\* Runs that log, with and without realtime, at the same time as runs started
\* by the cards
LogCodes == {"log"}
LogRegistry == [k \in {Uuid(1), Uuid(2)} |->
                   newScript(k, <<"F", "o">>, IF k = Uuid(1) THEN "log" ELSE "say")]
LogSettings == {Persisted(LogRegistry, TRUE, EmptyObject)}
NextLog ==
    \/ onInit
    \/ onInitReturn
    \/ TriggerRuns(1..NumRuns)
    \/ DirectRuns(1..NumRuns, LogCodes, {NULL}, {42}, BOOLEAN)
    \/ RunSteps(1..NumRuns)
SpecLog == InitWith(LogSettings) /\ [][NextLog]_vars

\* Runs whose scripts use the global namespace between their steps
GlobalOps(slots) ==
    \/ \E r \in slots, key \in GlobalKeys, value \in GlobalValues :
          globalSet(r, key, value)
    \/ \E r \in slots, key \in GlobalKeys : globalGet(r, key)
    \/ \E r \in slots : globalKeys(r)
NextGlobal ==
    \/ onInit
    \/ onInitReturn
    \/ \E r \in 1..NumRuns, h \in 1..MaxAPIs :
          runScript(r, TRUE, Uuid(1), <<"F", "o">>, "say", EPOCH, 42, TRUE, h)
    \/ RunSteps(1..NumRuns)
    \/ GlobalOps(1..NumRuns)
SpecGlobal == InitWith(ConcSettings) /\ [][NextGlobal]_vars

\* Runs of inline code only: runScript({ code, args }) with no script, and
\* part_000's card runCodeWithArgReturnsString
InlineCodes == {"ret", "throw", "loop", "waitret"}
NextInline ==
    \/ onInit
    \/ onInitReturn
    \/ \E code \in InlineCodes, h \in 1..MaxAPIs :
          runScript(1, FALSE, Undefined, Undefined, code, UNDEF, 42, TRUE, h)
    \/ \E code \in InlineCodes, h \in 1..MaxAPIs : runCode(1, code, 42, FALSE, h)
    \/ RunSteps({1})
    \/ Tick
SpecInline == InitWith(RunSettings) /\ [][NextInline]_vars

\* Runs at the same time
\* a script of the registry returns or throws; a direct run times out or calls
\* the host
ConcCodes == {"loop", "say"}
NextConc ==
    \/ onInit
    \/ onInitReturn
    \/ TriggerRuns(1..NumRuns)
    \/ DirectRuns(1..NumRuns, ConcCodes, {NULL}, {42}, {TRUE})
    \/ RunSteps(1..NumRuns)
SpecConc == InitWith(ConcSettings) /\ [][NextConc]_vars


\* Runs of inline code that returns, throws, suspends on say() or returns an
\* object that holds itself
MarkCodes == {"ret", "throw", "say", "cyclic"}
NextMark ==
    \/ onInit
    \/ onInitReturn
    \/ DirectRuns(1..NumRuns, MarkCodes, {EPOCH}, {42}, {TRUE})
    \/ RunSteps(1..NumRuns)
SpecMark == InitWith(ConcSettings) /\ [][NextMark]_vars


\* Every operation of the application
Next ==
    \/ Startup
    \/ StoreOps(ScriptIds)
    \/ TokenOps
    \/ TriggerRuns(1..NumRuns)
    \/ DirectRuns(1..NumRuns, Codes, {NULL, EPOCH, NODATE}, ArgValues, BOOLEAN)
    \/ RunSteps(1..NumRuns)
    \/ \E r \in 1..NumRuns : callbackRuns(r)
    \/ GlobalOps(1..NumRuns)
    \/ \E query \in Queries : autocomplete(query)
    \/ restart
    \/ Tick

\* The whole application
Spec == Init /\ [][Next]_vars


-----------------------------------------------------------------------------
(* Properties *)

\* The run in slot r has ended and runScript had acquired a handle for it
Ended(r) == runs[r].pc = "done" /\ runs[r].api # 0

\* C1: every host-API handle acquired by runScript is released on every exit
\* path of the run: no run has ended with its handle still live.
C1_HandleReleased ==
    \A r \in DOMAIN runs : Ended(r) => runs[r].api \notin homeyAPIs

\* Scripts that never finish on their own
NonTerminating == {"loop", "never", "waitloop"}

\* The event loop runs every continuation that is ready, and time passes
FairRun == SpecRun /\ WF_vars(RunSteps({1})) /\ WF_vars(Tick)

\* C2: a run of a script that never finishes on its own always ends with a
\* failure delivered to the caller.
C2_TimeoutDelivered ==
    \A r \in {1} :
        (Running(r) /\ runs[r].code \in NonTerminating)
            ~> (runs[r].pc = "done" /\ runs[r].outcome = "error")

\* C3: a run that fails raises an error whose message and stack are those of
\* the original failure.
C3_ErrorPreserved ==
    \A r \in DOMAIN runs :
        (runs[r].pc = "done" /\ runs[r].outcome = "error")
            => /\ runs[r].thrown.message = runs[r].cause.message
               /\ runs[r].thrown.stack = runs[r].cause.stack


\* Has lastExecuted of the entry of id, in reg, been set to a time >= t
ExecutedSince(reg, id, t) ==
    /\ id \in DOMAIN reg
    /\ reg[id].lastExecuted \in Dates
    /\ reg[id].lastExecuted >= t

\* C6: when a run of a persisted script started by a card has completed, with
\* a result or an error, the entry of that script has, in memory and as
\* persisted, a lastExecuted not earlier than the start of the run.
C6_ExecutionRecorded ==
    [][\A r \in DOMAIN runs :
          (runs[r].pc # "done" /\ runs'[r].pc = "done"
              /\ runs'[r].origin = "trigger" /\ runs'[r].api # 0)
          => /\ ExecutedSince(scripts', runs'[r].id, runs'[r].started)
             /\ ExecutedSince(settings'.scripts, runs'[r].id, runs'[r].started)]_vars

\* C7: fetching by id the script just returned by create yields a definition
\* with the same id, name and code and with lastExecuted null.
C7_GetAfterCreate ==
    lastOp.op = "create" =>
        LET got == getScript(scripts, lastOp.id) IN
        /\ got.err = NoError
        /\ got.val.id = lastOp.id
        /\ got.val.name = lastOp.name
        /\ got.val.code = lastOp.code
        /\ got.val.lastExecuted = NULL

\* What the claim says of an update of an existing entry: the fields given and
\* not null are set, every other field and every other entry stays.
MergedOnly(id, name, code) ==
    /\ DOMAIN scripts' = DOMAIN scripts
    /\ \A k \in (DOMAIN scripts) \ {id} : scripts'[k] = scripts[k]
    /\ scripts'[id].id = scripts[id].id
    /\ scripts'[id].lastExecuted = scripts[id].lastExecuted
    /\ scripts'[id].name = IF IsNullishStr(name) THEN scripts[id].name ELSE name
    /\ scripts'[id].code = IF IsNullishCode(code) THEN scripts[id].code ELSE code

\* C8: update merges only the fields that are provided and non-null, and
\* changes no other entry.
C8_UpdateMerges ==
    [][\A id \in DOMAIN scripts :
          /\ \A u \in UpdateInputs :
                (updateScript(id, u.name, u.code, u.le)
                    \/ updateScriptV2(id, u.name, u.code, u.le))
                => MergedOnly(id, u.name, u.code)
          /\ \A code \in {"throw", UndefCode} :
                updateScriptV1(id, code) => MergedOnly(id, Undefined, code)]_vars

\* C9: after delete(id), get(id) fails with the not-found error; delete of an
\* id that has no entry (deleted before, or never there) is possible as well,
\* and every delete leaves every other entry as it was.
C9_Delete ==
    [][\A id \in ScriptIds :
          /\ Ready => ENABLED deleteScript(id)
          /\ deleteScript(id) =>
                /\ getScript(scripts', id).err = NotFound
                /\ DOMAIN scripts' = (DOMAIN scripts) \ {id}
                /\ \A k \in DOMAIN scripts' : scripts'[k] = scripts[k]
                /\ settings'.scripts = Serialize(scripts')]_vars

\* A delete of an id that had no entry has just completed, and other entries
\* are there
C9_Witness ==
    /\ lastOp.op = "delete"
    /\ lastOp.absent
    /\ DOMAIN scripts # {}


\* No setToken call and none of startup's createToken calls is in flight
Quiescent ==
    /\ phase = "ready"
    /\ \A c \in DOMAIN tokCalls : tokCalls[c].pc = "idle"
    /\ \A i \in DOMAIN initTokens : initTokens[i] # "pending"

\* C4: after startup and once the setToken calls made have completed, the ids
\* with a persisted token entry are the ids with a live handle registered in
\* the automation system, and no id has two live handles.
C4_EntriesPaired ==
    Quiescent =>
        /\ DOMAIN settings.tokens = {p[1] : p \in flowTokens}
        /\ \A p, q \in flowTokens : p[1] = q[1] => p = q

\* C5: when setToken(id, v), v not null, and then setToken(id, null) have run
\* one after the other, there is no entry for id, no slot for id in the handle
\* map, and the persisted tokens do not hold id.
C5_SetThenDelete ==
    tokHist.seq = "set;delete" =>
        /\ tokHist.id \notin DOMAIN tokens
        /\ tokHist.id \notin DOMAIN tokensInstances
        /\ tokHist.id \notin DOMAIN settings.tokens


\* The outcomes runScript has for a program when no other run is under way: the
\* script runs from step pos; a script that never settles has none.
RECURSIVE Alone(_, _, _, _)
Alone(v, prog, pos, arg) ==
    LET ev == Eval(prog, pos, arg) IN
    IF ev.spin
    THEN IF pos = 1
         THEN {[outcome |-> "error", value |-> UndefVal,
                thrown |-> normalized(v, TimeoutErr)]}
         ELSE {}
    ELSE IF ev.promise = "resolved"
    THEN IF JSON_stringify(ev.value).err # NoErr
         THEN {[outcome |-> "error", value |-> ev.value,
                thrown |-> normalized(v, JSON_stringify(ev.value).err)]}
         ELSE {[outcome |-> "value", value |-> ev.value, thrown |-> NoErr]}
    ELSE IF ev.promise = "rejected"
    THEN {[outcome |-> "error", value |-> UndefVal,
           thrown |-> normalized(v, ev.cause)]}
    ELSE IF prog[ev.pos] = "never" THEN {}
    ELSE Alone(v, prog, ev.pos + 1, arg) \cup
         (IF prog[ev.pos] = "say"
          THEN {[outcome |-> "error", value |-> UndefVal,
                 thrown |-> normalized(v, SayErr)]}
          ELSE {})

\* The outcomes of the run in slot r, had it run alone
AloneOutcomes(r) ==
    IF runs[r].lastExecuted \in {NULL, UNDEF, NODATE}
    THEN {[outcome |-> "error", value |-> UndefVal, thrown |-> TypeErr]}
    ELSE IF runs[r].code = "syntax"
    THEN {[outcome |-> "error", value |-> UndefVal,
           thrown |-> normalized(variant, SyntaxErr)]}
    ELSE Alone(variant, Prog(runs[r].code), 1, runs[r].arg)

\* C10: two runs under way at the same time hold distinct host-API handles,
\* and a run that has ended after it ran at the same time as another run has the
\* outcome (value returned or error raised) it has when it runs alone.
C10_RunsIndependent ==
    /\ \A r, q \in DOMAIN runs :
          (r # q /\ Running(r) /\ Running(q)) => runs[r].api # runs[q].api
    /\ \A r \in DOMAIN runs :
          (Ended(r) /\ runs[r].met) =>
              [outcome |-> runs[r].outcome, value |-> runs[r].value,
               thrown |-> runs[r].thrown] \in AloneOutcomes(r)

\* Two runs were under way at the same time; one has returned the value of its
\* script after a host call, the other has timed out
C10_Witness ==
    \E r, q \in DOMAIN runs :
        /\ Ended(r) /\ runs[r].met /\ runs[r].code = "say" /\ runs[r].outcome = "value"
        /\ Ended(q) /\ runs[q].met /\ runs[q].cause = TimeoutErr


\* C11: once a startup has applied the migration, a later startup changes no
\* script entry: the registry it leaves, in memory and persisted, is the
\* registry that was persisted when it began.
C11_MigrationOnce ==
    [][(phase = "reboot" /\ phase' = "init") =>
          /\ settings'.scripts = settings.scripts
          /\ scripts' = settings.scripts]_vars

\* The migration of the variant runs in the startup that begins now
MigrationRuns ==
    /\ phase \in {"boot", "reboot"}
    /\ settings.hasScripts
    /\ variant = "part000" => ~settings.migrations

\* C12: when the migration runs, an entry without a name gets name and id
\* equal to its key and keeps code and lastExecuted, and an entry that has a
\* name is kept as it is.
C12_OnlyBackfills ==
    [][(MigrationRuns /\ phase' = "init") =>
          /\ DOMAIN scripts' = DOMAIN settings.scripts
          /\ \A k \in DOMAIN settings.scripts :
                LET e == settings.scripts[k] IN
                IF IsString(e.name)
                THEN scripts'[k] = e
                ELSE scripts'[k] = [e EXCEPT !.name = k, !.id = k]]_vars


\* The scripts of the registry whose name contains the query, case ignored
NameMatches(reg, query) ==
    {[id |-> reg[k].id, name |-> reg[k].name] :
        k \in {j \in DOMAIN reg :
                 /\ IsString(reg[j].name)
                 /\ includes(toLowerCase(reg[j].name), toLowerCase(query))}}

\* C13: the autocomplete search returns the {id, name} pairs of exactly the
\* scripts whose name contains the query as a substring, case ignored; it
\* matches the name, not the id.
C13_SearchByName ==
    lastOp.op = "search" => lastOp.found = NameMatches(scripts, lastOp.id)


\* C14: when onInit returns, every persisted token entry whose createToken
\* did not fail has its handle, registered in the handle map.
C14_TokensRebuilt ==
    [][(phase = "init" /\ phase' = "ready") =>
          \A id \in DOMAIN initTokens' :
              initTokens'[id] # "failed" =>
                  /\ initTokens'[id] = "ok"
                  /\ id \in DOMAIN tokensInstances'
                  /\ <<id, tokensInstances'[id]>> \in flowTokens']_vars


\* C20: once delete(id) has completed, id stays absent from the registry until
\* a create: no later step of any run or listener brings the entry back.
C20_DeleteIsPermanent ==
    [][\A id \in ScriptIds :
          (/\ lastOp.op = "delete" /\ lastOp.id = id
           /\ getScript(scripts, id).err = NotFound
           /\ getScript(scripts', id).err # NotFound)
          => lastOp'.op = "create"]_vars


\* C19: a run of inline code, which has no persisted definition, runs under
\* the sentinel id with the current time as lastExecuted, and no step of it
\* changes the registry, in memory or persisted.  (Under SpecInline every run
\* is such a run.)
C19_InlineRun ==
    [][phase = "ready" =>
          /\ scripts' = scripts
          /\ settings'.scripts = settings.scripts
          /\ \A r \in DOMAIN runs :
                (runs[r].pc # "acquired" /\ runs'[r].pc = "acquired") =>
                    /\ runs'[r].id = VoidId
                    /\ runs'[r].lastExecuted = now]_vars


\* C15: every log line of a run is written locally; a run sends a realtime
\* event for a line if and only if its realtime flag is set, every event it
\* sends carries the id of that run, and a run started by a card sends none.
C15_RealtimeFollowsFlag ==
    \A r \in DOMAIN runs :
        /\ Len(runs[r].events) = IF runs[r].realtime THEN runs[r].lines ELSE 0
        /\ \A i \in 1..Len(runs[r].events) : runs[r].events[i] = runs[r].id
        /\ runs[r].origin = "trigger" => runs[r].events = << >>
        /\ (Ended(r) /\ runs[r].cause # TypeErr) =>
              runs[r].lines = 2 + (IF runs[r].code = "log" THEN 1 ELSE 0)

\* Two runs were under way at the same time and have ended: one with realtime
\* set has sent its three lines, one started by a card has logged its three
\* lines and sent none
C15_Witness ==
    \E r, q \in DOMAIN runs :
        /\ Ended(r) /\ runs[r].met /\ runs[r].realtime /\ runs[r].code = "log"
        /\ Len(runs[r].events) = 3
        /\ Ended(q) /\ runs[q].met /\ runs[q].origin = "trigger"
        /\ runs[q].code = "log" /\ runs[q].lines = 3 /\ runs[q].events = << >>


\* C16: once the timeout of a run has fired and the run has failed, no code of
\* its script runs any more: the run logs no further line and sends no
\* further event.
C16_NothingAfterTimeout ==
    [][\A r \in DOMAIN runs :
          (/\ Ended(r) /\ runs[r].cause = TimeoutErr
           /\ runs'[r].pc = "done" /\ runs'[r].api = runs[r].api)
          => /\ runs'[r].lines = runs[r].lines
             /\ runs'[r].events = runs[r].events]_vars


\* What the script of each program returns when it does not throw:
\* `return 1+1' gives 2 and `return args[0]' gives the first argument
ReturnOf(code, arg) ==
    CASE code \in {"ret", "say", "log"} -> 2
      [] code = "waitret"               -> arg
      [] OTHER                          -> UndefVal

\* The run in slot r resolves in this step
Resolves(r) ==
    /\ runs[r].pc # "done"
    /\ runs'[r].pc = "done"
    /\ runs'[r].outcome = "value"

\* C17: a run whose script returns a value resolves to that value, with args[0]
\* the first argument given; a script that awaits wait(ms) first does not
\* resolve before the delay has passed; and the cards runWithArg start the run
\* with the argument of the card as args[0].
C17_ValueAndArgs ==
    [][\A r \in DOMAIN runs :
          /\ Resolves(r) =>
                /\ runs'[r].value = ReturnOf(runs'[r].code, runs'[r].arg)
                /\ runs'[r].code = "waitret" => now' >= runs'[r].due
          /\ \A card \in {"runWithArg", "action.runWithArg"}, id \in DOMAIN scripts,
                h \in 1..MaxAPIs :
                flowRun(r, card, id, 42, h) =>
                    /\ runs'[r].pc = "acquired"
                    /\ runs'[r].arg = 42]_vars


\* What the global namespace holds, seen through global.get and global.keys
GlobalView(st) ==
    [keys |-> global_keys(st), at |-> [k \in GlobalKeys |-> global_get(st, k)]]

\* The records of the application in the settings
OwnRecords(st) ==
    <<st.hasScripts, st.scripts, st.hasTokens, st.tokens, st.migrations>>

\* C18: global.set(k, v), from any run, makes global.get(k) give v and k one
\* of global.keys(), and changes nothing else of the namespace; no other step
\* changes the namespace; global.get and global.keys give what the namespace
\* holds; and no call changes the persisted scripts, tokens or migrations.
C18_GlobalNamespace ==
    [][/\ \A r \in DOMAIN runs, k \in GlobalKeys, v \in GlobalValues :
             globalSet(r, k, v) =>
                /\ global_keys(settings') = global_keys(settings) \cup {k}
                /\ \A q \in GlobalKeys :
                      global_get(settings', q) =
                          IF q = k THEN v ELSE global_get(settings, q)
                /\ OwnRecords(settings') = OwnRecords(settings)
       /\ (lastOp' = lastOp \/ lastOp'.op # "global.set") =>
             GlobalView(settings') = GlobalView(settings)
       /\ (lastOp' # lastOp /\ lastOp'.op \in {"global.set", "global.get", "global.keys"}) =>
             scripts' = scripts /\ tokens' = tokens
       /\ (lastOp' # lastOp /\ lastOp'.op \in {"global.get", "global.keys"}) =>
             /\ settings' = settings
             /\ lastOp'.found = IF lastOp'.op = "global.get"
                                THEN GlobalView(settings).at[lastOp'.id]
                                ELSE GlobalView(settings).keys]_vars

\* While two runs are under way, run 2 has read the value 7 under a key, and
\* both keys have been set
C18_Witness ==
    /\ lastOp.op = "global.get" /\ lastOp.by = 2
    /\ lastOp.found = [k \in {<<"n">>} |-> 7]
    /\ global_keys(settings) = GlobalKeys
    /\ \A r \in {1, 2} : runs[r].pc = "awaiting"


\* C21: once startup has completed, every entry of the registry has an id
\* equal to its key and a string as name, and the autocomplete search fails on
\* no query.
C21_RegistryWellFormed ==
    phase = "ready" =>
        /\ \A k \in DOMAIN scripts :
              scripts[k].id = k /\ IsString(scripts[k].name)
        /\ \A query \in Queries :
              onFlowGetScriptAutocomplete(variant, scripts, query) # TypeErrorResult


\* What holds after setToken calls on one id that ran one after the other, when
\* no external operation failed: the entries are persisted, each has its slot
\* in the handle map, and the live handles are the tracked ones
SequentialTokens ==
    /\ settings.tokens = tokens
    /\ DOMAIN tokensInstances = DOMAIN tokens
    /\ flowTokens = {<<id, tokensInstances[id]>> : id \in DOMAIN tokensInstances}

\* C22: setToken calls on the same id that overlap throw no error (calls that
\* run one after the other throw none, as no external operation fails by
\* itself), and once they have completed the entry, the handle map and the live
\* handles are what calls one after the other leave: no handle is live without
\* being tracked.
C22_SetTokenLinearizable ==
    /\ tokHist.err = NoError
    /\ Quiescent => SequentialTokens


\* C23: when the external operation of a setToken call fails, on create or
\* update the call throws and the entries, the handle map and the persisted
\* tokens stay as they were; on delete the call throws nothing, and the entry
\* and the slot of the id are gone, from the persisted tokens too.
C23_FailureKeepsInStep ==
    [][\A c \in DOMAIN tokCalls :
          (/\ tokCalls[c].pc # "idle"
           /\ tokCalls'[c].pc = "idle"
           /\ tokHist'.ext = "failed") =>
              IF tokCalls[c].pc = "unregister"
              THEN /\ tokHist'.err = NoError
                   /\ tokCalls[c].id \notin DOMAIN tokens'
                   /\ tokCalls[c].id \notin DOMAIN tokensInstances'
                   /\ tokCalls[c].id \notin DOMAIN settings'.tokens
              ELSE /\ tokHist'.err # NoError
                   /\ tokens' = tokens
                   /\ tokensInstances' = tokensInstances
                   /\ settings'.tokens = settings.tokens]_vars


\* C24: a run that has ended has logged exactly one outcome marker: the
\* success marker when it returned a value to its caller, the failure marker
\* when it threw; and no run logs both.
C24_OneOutcomeMarker ==
    \A r \in DOMAIN runs :
        /\ runs[r].marks # {"success", "error"}
        /\ Ended(r) =>
              runs[r].marks = IF runs[r].outcome = "value" THEN {"success"}
                              ELSE {"error"}

=============================================================================
